---- MODULE Spec2Model ----
(***************************************************************************)
(* Corpus conformance checks of rcook0/codeindex (tools/corpus_check.py,    *)
(* tools/regen_meta.py): the ordering primitive, the file metadata         *)
(* cross-check, the SymbolIndex and ProjectIndex checks and the driver     *)
(* loop of main; and the profile registry (tools/profile_registry.py).     *)
(*                                                                         *)
(* Python values are tagged records.  Text is a sequence of code points,   *)
(* so that Python's lexicographic comparison of str and of tuple is        *)
(* computed and not assumed.  A JSON object is a record over the keys the  *)
(* code reads, a key the document leaves out holding Absent.               *)
(***************************************************************************)
EXTENDS Integers, Sequences, FiniteSets, TLC

VARIABLES
    seq, sorted_ret,                     \* _is_sorted: argument, return value
    data, file_meta_ret, count_lines_ret,\* _file_meta / count_lines
    doc, inputs_dir, errs_ret,           \* one call of a document check
    corpus, expected_files, idx,         \* main: the corpus, the sorted paths, the loop
    all_errs, uncaught, exit_code,       \* main: messages, uncaught exception, status
    registry, file_path, root,           \* resolve_profile: arguments
    PathSpec, resolve_ret,               \* the optional import; the return value
    pc

sortedVars == <<seq, sorted_ret>>
linesVars == <<data, file_meta_ret, count_lines_ret>>
docVars == <<doc, inputs_dir, errs_ret>>
mainVars == <<corpus, expected_files, idx, all_errs, uncaught, exit_code>>
regVars == <<registry, file_path, root, PathSpec, resolve_ret>>
vars == <<sortedVars, linesVars, docVars, mainVars, regVars, pc>>

----------------------------------------------------------------------------
(* Bounds of the model.                                                    *)

MaxSeqLen == 3      \* longest key sequence given to _is_sorted
MaxDataLen == 4     \* longest file content, in bytes
MaxOccs == 3        \* longest occurrences list of a drawn symbol
MaxSyms == 3        \* most symbols of a drawn document
MaxFiles == 2       \* most files[] entries of a drawn document
MaxDocs == 3        \* most discovered expected files of a run
MaxIndexes == 3     \* most entries of a drawn ProjectIndex
MaxRules == 3       \* most rules of a drawn registry

----------------------------------------------------------------------------
(* Values.                                                                 *)

Absent == [t |-> "absent"]                 \* key not in the object
None == [t |-> "null"]                     \* JSON null / Python None
JInt(n) == [t |-> "int", n |-> n]
JStr(s) == [t |-> "str", s |-> s]          \* s: sequence of code points
JList(xs) == [t |-> "list", xs |-> xs]
JObj(f) == [t |-> "obj", f |-> f]
PyTuple(xs) == [t |-> "tuple", xs |-> xs]

NL == 10                                   \* the code point of "\n"

SeqsUpTo(S, n) == UNION {[1..k -> S] : k \in 0..n}

RECURSIVE Digits(_)
\* the decimal text of a natural number, as str() prints it
Digits(n) == IF n < 10 THEN <<48 + n>> ELSE Digits(n \div 10) \o <<48 + (n % 10)>>

\* str(v)
PyStr(v) ==
    CASE v.t = "str" -> v.s
      [] v.t = "int" -> IF v.n < 0 THEN <<45>> \o Digits(-v.n) ELSE Digits(v.n)
      [] v.t = "null" -> <<78, 111, 110, 101>>
      [] v.t = "list" /\ v.xs = <<>> -> <<91, 93>>

IsDigit(c) == c >= 48 /\ c <= 57           \* "0".."9"

RECURSIVE DigitsValue(_)
DigitsValue(s) ==
    IF s = <<>> THEN 0
    ELSE 10 * DigitsValue(SubSeq(s, 1, Len(s) - 1)) + (s[Len(s)] - 48)

\* int(v): [ok |-> TRUE, n |-> value], or ok = FALSE where Python raises
\* ValueError (text that is no number) or TypeError (None, list, dict)
PyInt(v) ==
    CASE v.t = "int" -> [ok |-> TRUE, n |-> v.n]
      [] v.t = "str" ->
            IF v.s # <<>> /\ \A i \in DOMAIN v.s : IsDigit(v.s[i])
            THEN [ok |-> TRUE, n |-> DigitsValue(v.s)]
            ELSE [ok |-> FALSE, n |-> 0]
      [] OTHER -> [ok |-> FALSE, n |-> 0]

\* o[k] is defined: o is a dict that has the key (else KeyError / TypeError)
HasItem(o, k) == o.t = "obj" /\ o.f[k] # Absent

\* o.get(k, default) of a dict o
Get(o, k, default) == IF o.f[k] = Absent THEN default ELSE o.f[k]

----------------------------------------------------------------------------
(* _is_sorted                                                              *)

\* first index at which two sequences differ, 0 when one is a prefix of the other
FirstDiff(a, b) ==
    LET m == IF Len(a) < Len(b) THEN Len(a) ELSE Len(b)
        D == {i \in 1..m : a[i] # b[i]}
    IN IF D = {} THEN 0 ELSE CHOOSE i \in D : \A j \in D : i <= j

RECURSIVE PyLess(_, _)
\* Python's a < b for two int, two str or two tuple values
PyLess(a, b) ==
    CASE a.t = "int" -> a.n < b.n
      [] a.t = "str" ->
            LET d == FirstDiff(a.s, b.s)
            IN IF d = 0 THEN Len(a.s) < Len(b.s) ELSE a.s[d] < b.s[d]
      [] a.t = "tuple" ->
            LET d == FirstDiff(a.xs, b.xs)
            IN IF d = 0 THEN Len(a.xs) < Len(b.xs) ELSE PyLess(a.xs[d], b.xs[d])

RECURSIVE ScanSorted(_, _)
\* the for loop of _is_sorted: prev is the element before the rest
ScanSorted(prev, rest) ==
    IF rest = <<>> THEN TRUE
    ELSE IF PyLess(rest[1], prev) THEN FALSE
    ELSE ScanSorted(rest[1], Tail(rest))

\* a plausible slip: rejecting equal neighbours
is_sorted_strict(s) ==
    \A i \in 1..(Len(s) - 1) : PyLess(s[i], s[i + 1])

_is_sorted(s) ==
    IF s = <<>> THEN TRUE ELSE ScanSorted(s[1], Tail(s))

\* "", "a", "ab", "b"
StrKeys == {JStr(<<>>), JStr(<<97>>), JStr(<<97, 98>>), JStr(<<98>>)}
OccKey(f, l, cs, ce) == PyTuple(<<JStr(f), JInt(l), JInt(cs), JInt(ce)>>)
f1 == <<102, 49>>                          \* "f1"
f2 == <<102, 50>>                          \* "f2"
TupleKeys == {OccKey(f, l, 0, ce) : f \in {f1, f2}, l \in {1, 2}, ce \in {0, 1}}

NotCalled == [t |-> "pending"]
Returned(v) == [t |-> "return", v |-> v]

IdleSorted == seq = <<>> /\ sorted_ret = NotCalled
IdleLines == data = <<>> /\ file_meta_ret = NotCalled /\ count_lines_ret = NotCalled
IdleDoc == doc = None /\ inputs_dir = None /\ errs_ret = NotCalled
IdleMain ==
    /\ corpus = None /\ expected_files = <<>> /\ idx = 0
    /\ all_errs = <<>> /\ uncaught = "" /\ exit_code = -1
IdleReg ==
    /\ registry = None /\ file_path = <<>> /\ root = None
    /\ PathSpec = None /\ resolve_ret = NotCalled

InitSorted ==
    /\ seq \in SeqsUpTo(StrKeys, MaxSeqLen) \cup SeqsUpTo(TupleKeys, MaxSeqLen)
    /\ sorted_ret = NotCalled
    /\ pc = "call"
    /\ IdleLines /\ IdleDoc /\ IdleMain /\ IdleReg

CallIsSorted ==
    /\ pc = "call"
    /\ sorted_ret' = Returned(_is_sorted(seq))
    /\ pc' = "done"
    /\ UNCHANGED <<seq, linesVars, docVars, mainVars, regVars>>

NextSorted == CallIsSorted

SpecSorted == InitSorted /\ [][NextSorted]_vars

\* a >= b, stated without PyLess(a, b)
PyGe(a, b) == a = b \/ PyLess(b, a)

NonDecreasing(s) == \A i \in 2..Len(s) : PyGe(s[i], s[i - 1])

\* C1: _is_sorted returns true iff every element is >= its predecessor; so it
\* returns true for the empty sequence, for one element and for equal neighbours.
C1_IsSortedIffNonDecreasing ==
    pc = "done" =>
        /\ sorted_ret.v = NonDecreasing(seq)
        /\ (Len(seq) <= 1 => sorted_ret.v = TRUE)
        /\ ((\A i \in 2..Len(seq) : seq[i] = seq[i - 1]) => sorted_ret.v = TRUE)

\* a sequence of three keys with an equal adjacent pair, found sorted
C1_Witness ==
    /\ pc = "done"
    /\ Len(seq) = 3
    /\ seq[1] = seq[2]
    /\ seq[2] # seq[3]
    /\ sorted_ret.v = TRUE

----------------------------------------------------------------------------
(* _file_meta (corpus_check.py) and count_lines (regen_meta.py)            *)

\* bytes drawn for file contents: "\n", "a", and the two bytes of U+00E9, which
\* apart or in the wrong order are invalid UTF-8
Bytes == {NL, 97, 195, 169}     \* 97 is "a"
REPLACEMENT == 65533

RECURSIVE Decode(_)
\* data.decode('utf-8', errors='replace') for bytes below 0xE0: ASCII, a
\* two-byte sequence, or U+FFFD for a stray continuation byte, an overlong
\* lead (0xC0, 0xC1) or a lead that no continuation byte follows
Decode(bs) ==
    IF bs = <<>> THEN <<>>
    ELSE LET b == bs[1]
         IN CASE b < 128 -> <<b>> \o Decode(Tail(bs))
              [] b >= 128 /\ b < 194 -> <<REPLACEMENT>> \o Decode(Tail(bs))
              [] b >= 194 /\ b < 224 ->
                    IF Len(bs) >= 2 /\ bs[2] >= 128 /\ bs[2] < 192
                    THEN <<(b - 192) * 64 + (bs[2] - 128)>> \o Decode(Tail(Tail(bs)))
                    ELSE <<REPLACEMENT>> \o Decode(Tail(bs))

RECURSIVE Count(_, _)
\* text.count(c) for a single character c
Count(text, c) ==
    IF text = <<>> THEN 0
    ELSE (IF text[1] = c THEN 1 ELSE 0) + Count(Tail(text), c)

EndsWith(text, c) == text # <<>> /\ text[Len(text)] = c

\* "0".."9" from 48, "a".."f" from 97
HexDigit(n) == IF n < 10 THEN 48 + n ELSE 97 + (n - 10)

RECURSIVE HexOf(_)
HexOf(bs) ==
    IF bs = <<>> THEN <<>>
    ELSE <<HexDigit(bs[1] \div 16), HexDigit(bs[1] % 16)>> \o HexOf(Tail(bs))

\* hashlib.sha256(d).hexdigest(): a lower-case hex text that differs for
\* different contents (the digest is taken collision-free on the drawn contents)
Sha256Hex(d) == HexOf(d)

\* a plausible slip: one more line for every non-empty text
file_meta_plus_one(d) ==
    LET text == Decode(d)
    IN [bytes |-> Len(d),
        lines |-> Count(text, NL) + (IF Len(text) > 0 THEN 1 ELSE 0),
        sha |-> Sha256Hex(d)]

_file_meta(d) ==
    LET sha == Sha256Hex(d)
        text == Decode(d)
        lines == Count(text, NL)
    IN [bytes |-> Len(d),
        lines |-> IF Len(text) > 0 /\ ~EndsWith(text, NL) THEN lines + 1 ELSE lines,
        sha |-> sha]

count_lines(text) ==
    IF text = <<>> THEN 0
    ELSE LET n == Count(text, NL)
         IN IF ~EndsWith(text, NL) THEN n + 1 ELSE n

InitLines ==
    /\ data \in SeqsUpTo(Bytes, MaxDataLen)
    /\ file_meta_ret = NotCalled
    /\ count_lines_ret = NotCalled
    /\ pc = "call"
    /\ IdleSorted /\ IdleDoc /\ IdleMain /\ IdleReg

\* corpus_check.py reads the file and measures it
CallFileMeta ==
    /\ pc = "call"
    /\ file_meta_ret = NotCalled
    /\ file_meta_ret' = Returned(_file_meta(data))
    /\ pc' = IF count_lines_ret = NotCalled THEN "call" ELSE "done"
    /\ UNCHANGED <<sortedVars, data, count_lines_ret, docVars, mainVars, regVars>>

\* regen_meta.py decodes the same file and counts its lines
CallCountLines ==
    /\ pc = "call"
    /\ count_lines_ret = NotCalled
    /\ count_lines_ret' = Returned(count_lines(Decode(data)))
    /\ pc' = IF file_meta_ret = NotCalled THEN "call" ELSE "done"
    /\ UNCHANGED <<sortedVars, data, file_meta_ret, docVars, mainVars, regVars>>

NextLines == CallFileMeta \/ CallCountLines

SpecLines == InitLines /\ [][NextLines]_vars

NewlinePositions(text) == {i \in DOMAIN text : text[i] = NL}

\* C10: the line count is the number of newlines of the decoded text, plus one
\* when the text is non-empty and its last character is no newline ("" gives 0,
\* "a\nb" gives 2, "a\nb\n" gives 2); _file_meta and count_lines agree.
C10_LineCount ==
    LET text == Decode(data)
        want == Cardinality(NewlinePositions(text))
                + (IF text # <<>> /\ Len(text) \notin NewlinePositions(text) THEN 1 ELSE 0)
    IN pc = "done" =>
        /\ file_meta_ret.v.lines = want
        /\ count_lines_ret.v = file_meta_ret.v.lines
        /\ (data = <<>> => file_meta_ret.v.lines = 0)
        /\ (data = <<97, NL, 97>> => file_meta_ret.v.lines = 2)
        /\ (data = <<97, NL, 97, NL>> => file_meta_ret.v.lines = 2)

\* "a\n" followed by a byte that decodes to U+FFFD: two lines by both counts
C10_Witness ==
    /\ pc = "done"
    /\ data = <<97, NL, 169>>
    /\ file_meta_ret.v.lines = 2
    /\ count_lines_ret.v = 2

----------------------------------------------------------------------------
(* Error messages and exceptions                                           *)

\* One message of an error list.  The fields are what the f-string prints:
\* the expected file's path, the "(indexes[i])" tag check_project_index adds
\* (-1: none), the wording, the identifier or file id, the recorded value as
\* printed, the computed value, and the value printed with !r.
Err(path, kind, who, stated, actual, obj) ==
    [path |-> path, tag |-> -1, kind |-> kind, who |-> who,
     stated |-> stated, actual |-> actual, obj |-> obj]

\* the running state of a check: the messages so far and the exception that
\* ended it ("" while none was raised)
Went(errs) == [errs |-> errs, exc |-> ""]
Threw(exc) == [errs |-> <<>>, exc |-> exc]

\* the exception int(v) raises
IntError(v) == IF v.t = "str" THEN "ValueError" ELSE "TypeError"

\* what a call gives its caller
Raised(exc) == [t |-> "raise", exc |-> exc]
Outcome(w) == IF w.exc = "" THEN Returned(w.errs) ELSE Raised(w.exc)

\* k in o: "yes", "no", or the TypeError of a value that is no container.  A
\* str is searched for k as a substring (none of the texts drawn is as long
\* as a key), a list for k as an element (the lists drawn hold no str).
In(k, o) ==
    CASE o.t = "obj" -> IF o.f[k] # Absent THEN "yes" ELSE "no"
      [] o.t = "str" /\ Len(o.s) < 4 -> "no"
      [] o.t = "list" /\ \A i \in DOMAIN o.xs : o.xs[i].t # "str" -> "no"
      [] o.t \in {"int", "null"} -> "TypeError"

----------------------------------------------------------------------------
(* _check_file_metadata                                                    *)

NoFile == <<-1>>

\* the content of inputs_dir / file_id, NoFile when in_path.exists() is false
Lookup(dir, file_id) ==
    IF file_id \in DOMAIN dir.files THEN dir.files[file_id] ELSE NoFile

\* a plausible slip: f.get('bytes', 0) and f.get('lines', 0), so that a field
\* the entry leaves out is compared as 0
CheckFileEntryDefaulted(path, f, dir) ==
    IF ~HasItem(f, "file_id")
    THEN Went(<<Err(path, "malformed files[] entry", <<>>, <<>>, -1, f)>>)
    ELSE LET file_id == PyStr(f.f.file_id)
             content == Lookup(dir, file_id)
             m == _file_meta(content)
             vB == Get(f, "bytes", JInt(0))
             vL == Get(f, "lines", JInt(0))
             hasS == f.f.sha256 # Absent
             eB == IF PyInt(vB).n # m.bytes
                   THEN <<Err(path, "bytes", file_id, PyStr(vB), m.bytes, None)>>
                   ELSE <<>>
             eL == IF PyInt(vL).n # m.lines
                   THEN <<Err(path, "lines", file_id, PyStr(vL), m.lines, None)>>
                   ELSE <<>>
             eS == IF hasS /\ PyStr(f.f.sha256) # m.sha
                   THEN <<Err(path, "sha256 mismatch", file_id, <<>>, -1, None)>>
                   ELSE <<>>
         IN IF content = NoFile
            THEN Went(<<Err(path, "input file missing", file_id, <<>>, -1, None)>>)
            ELSE IF ~PyInt(vB).ok THEN Threw(IntError(vB))
            ELSE IF ~PyInt(vL).ok THEN Threw(IntError(vL))
            ELSE Went(eB \o eL \o eS)

\* the body of the loop over files[]
CheckFileEntry(path, f, dir) ==
    IF ~HasItem(f, "file_id")
    THEN Went(<<Err(path, "malformed files[] entry", <<>>, <<>>, -1, f)>>)
    ELSE LET file_id == PyStr(f.f.file_id)
             content == Lookup(dir, file_id)
             m == _file_meta(content)
             hasB == f.f.bytes # Absent
             hasL == f.f.lines # Absent
             hasS == f.f.sha256 # Absent
             eB == IF hasB /\ PyInt(f.f.bytes).n # m.bytes
                   THEN <<Err(path, "bytes", file_id, PyStr(f.f.bytes), m.bytes, None)>>
                   ELSE <<>>
             eL == IF hasL /\ PyInt(f.f.lines).n # m.lines
                   THEN <<Err(path, "lines", file_id, PyStr(f.f.lines), m.lines, None)>>
                   ELSE <<>>
             eS == IF hasS /\ PyStr(f.f.sha256) # m.sha
                   THEN <<Err(path, "sha256 mismatch", file_id, <<>>, -1, None)>>
                   ELSE <<>>
         IN IF content = NoFile
            THEN Went(<<Err(path, "input file missing", file_id, <<>>, -1, None)>>)
            ELSE IF hasB /\ ~PyInt(f.f.bytes).ok THEN Threw(IntError(f.f.bytes))
            ELSE IF hasL /\ ~PyInt(f.f.lines).ok THEN Threw(IntError(f.f.lines))
            ELSE Went(eB \o eL \o eS)

RECURSIVE FileLoop(_, _, _, _)
RECURSIVE FileLoopNext(_, _, _, _, _)
\* for f in files: the messages of the entries in order, up to an exception
FileLoop(path, files, dir, errs) ==
    IF files = <<>> THEN Went(errs)
    ELSE FileLoopNext(path, files, dir, errs, CheckFileEntry(path, files[1], dir))

\* after the body gave r for files[1]: the exception leaves the loop, the
\* messages are appended and the loop goes on
FileLoopNext(path, files, dir, errs, r) ==
    IF r.exc # "" THEN Threw(r.exc)
    ELSE FileLoop(path, Tail(files), dir, errs \o r.errs)

_check_file_metadata(path, d, dir) ==
    IF d.t # "obj" THEN Threw("AttributeError")
    ELSE LET files == Get(d, "files", JList(<<>>))
         IN IF files.t # "list" THEN Went(<<>>)
            ELSE FileLoop(path, files.xs, dir, <<>>)

\* the two files a reference directory may hold: "a\n" and "a\nb"
Content1 == <<97, NL>>
Content2 == <<97, NL, 98>>
NameA == <<97>>                            \* "a"
NameB == <<98>>                            \* "b"

FileEntry(file_id, bytes, lines, sha256) ==
    JObj([file_id |-> file_id, bytes |-> bytes, lines |-> lines, sha256 |-> sha256])

\* the inputs directory: whether it exists, and the content of each file in it
Dir(exists, files) == [exists |-> exists, files |-> files]

\* entries for file "a" with every subset of the optional fields, each right
\* for one of the two contents; an entry for the file "b", which no directory
\* holds; a number where an entry should be; an entry without file_id; a byte
\* count as text; a byte count that is no number
MetaEntries ==
    {FileEntry(JStr(NameA), b, l, h) :
        b \in {Absent, JInt(2), JInt(3)},
        l \in {Absent, JInt(1), JInt(2)},
        h \in {Absent, JStr(Sha256Hex(Content1)), JStr(Sha256Hex(Content2))}}
    \cup {FileEntry(JStr(NameB), JInt(2), Absent, Absent),
          JInt(3),
          FileEntry(Absent, JInt(2), Absent, Absent),
          FileEntry(JStr(NameA), JStr(<<50>>), Absent, Absent),
          FileEntry(JStr(NameA), JStr(<<120>>), JInt(1), Absent)}

MetaDirs ==
    {Dir(TRUE, [n \in {NameA} |-> c]) : c \in {Content1, Content2}}
    \cup {Dir(TRUE, <<>>)}

Doc(schema_version, files, symbols, indexes, profile_id) ==
    JObj([schema_version |-> schema_version, files |-> files, symbols |-> symbols,
          indexes |-> indexes, profile_id |-> profile_id])

InitMeta ==
    /\ \E fs \in SeqsUpTo(MetaEntries, MaxFiles) :
          doc = Doc(Absent, JList(fs), Absent, Absent, Absent)
    /\ inputs_dir \in MetaDirs
    /\ errs_ret = NotCalled
    /\ pc = "call"
    /\ IdleSorted /\ IdleLines /\ IdleMain /\ IdleReg

CallCheckFileMetadata ==
    /\ pc = "call"
    /\ errs_ret' = Outcome(_check_file_metadata(1, doc, inputs_dir))
    /\ pc' = "done"
    /\ UNCHANGED <<sortedVars, linesVars, doc, inputs_dir, mainVars, regVars>>

NextMeta == CallCheckFileMetadata

SpecMeta == InitMeta /\ [][NextMeta]_vars

\* how often a message of this wording about this identifier or file is in errs
CountErrs(errs, kind, who) ==
    Cardinality({i \in DOMAIN errs : errs[i].kind = kind /\ errs[i].who = who})

\* the entries of files[] that name the file and whose file exists
EntriesOf(files, dir, name) ==
    {i \in DOMAIN files :
        /\ HasItem(files[i], "file_id")
        /\ PyStr(files[i].f.file_id) = name
        /\ Lookup(dir, name) # NoFile}

\* the number a recorded count stands for: itself, or the number its text spells
Recorded(v) == IF v.t = "int" THEN v.n ELSE DigitsValue(v.s)

\* C9: for an entry whose file exists, a mismatch on bytes, on lines and on
\* sha256 is reported iff the entry has the field and its value differs from
\* the file's; a field left out gives no message, and each wrong field gives
\* its own message.  (Stated of the list the check returns.)
C9_MetadataMismatchPerPresentField ==
    (pc = "done" /\ errs_ret.t = "return") =>
        \A name \in {NameA, NameB} :
            LET files == doc.f.files.xs
                E == EntriesOf(files, inputs_dir, name)
                content == Lookup(inputs_dir, name)
                text == Decode(content)
                nlines == Cardinality(NewlinePositions(text))
                          + (IF text # <<>> /\ text[Len(text)] # NL THEN 1 ELSE 0)
            IN /\ CountErrs(errs_ret.v, "bytes", name) =
                    Cardinality({i \in E : /\ files[i].f.bytes # Absent
                                           /\ Recorded(files[i].f.bytes) # Len(content)})
               /\ CountErrs(errs_ret.v, "lines", name) =
                    Cardinality({i \in E : /\ files[i].f.lines # Absent
                                           /\ Recorded(files[i].f.lines) # nlines})
               /\ CountErrs(errs_ret.v, "sha256 mismatch", name) =
                    Cardinality({i \in E : /\ files[i].f.sha256 # Absent
                                           /\ files[i].f.sha256.s # Sha256Hex(content)})

\* one entry that records only a wrong byte count and one with all three fields
\* wrong: one message for the first, three for the second
C9_Witness ==
    /\ pc = "done"
    /\ errs_ret.t = "return"
    /\ inputs_dir = Dir(TRUE, [n \in {NameA} |-> Content2])
    /\ doc.f.files.xs =
         <<FileEntry(JStr(NameA), JInt(2), Absent, Absent),
           FileEntry(JStr(NameA), JInt(2), JInt(1), JStr(Sha256Hex(Content1)))>>
    /\ Len(errs_ret.v) = 4
    /\ errs_ret.v[1].kind = "bytes" /\ errs_ret.v[1].actual = 3
    /\ errs_ret.v[1].stated = <<50>>

----------------------------------------------------------------------------
(* check_symbol_index_doc                                                  *)

Occ(file_id, line, col_start, col_end) ==
    JObj([file_id |-> file_id, line |-> line, col_start |-> col_start,
          col_end |-> col_end])

Stats(occurrence_count, unique_line_count) ==
    JObj([occurrence_count |-> occurrence_count,
          unique_line_count |-> unique_line_count])

Symbol(identifier, occurrences, stats) ==
    JObj([identifier |-> identifier, occurrences |-> occurrences, stats |-> stats])

MISSING == <<60, 109, 105, 115, 115, 105, 110, 103, 62>>     \* "<missing>"

\* the try block of the loop over occs succeeds: the four subscripts and the
\* three int() calls
WellFormed(o) ==
    /\ HasItem(o, "file_id") /\ HasItem(o, "line")
    /\ HasItem(o, "col_start") /\ HasItem(o, "col_end")
    /\ PyInt(o.f.line).ok /\ PyInt(o.f.col_start).ok /\ PyInt(o.f.col_end).ok

KeyOf(o) ==
    PyTuple(<<JStr(PyStr(o.f.file_id)), JInt(PyInt(o.f.line).n),
              JInt(PyInt(o.f.col_start).n), JInt(PyInt(o.f.col_end).n)>>)

RECURSIVE Keys(_)
\* keys: the tuples of the occurrences the try block accepts, in list order
Keys(occs) ==
    IF occs = <<>> THEN <<>>
    ELSE (IF WellFormed(occs[1]) THEN <<KeyOf(occs[1])>> ELSE <<>>) \o Keys(Tail(occs))

RECURSIVE MalformedErrs(_, _, _)
\* one "malformed occurrence" message for each occurrence the try block rejects
MalformedErrs(path, ident, occs) ==
    IF occs = <<>> THEN <<>>
    ELSE (IF WellFormed(occs[1]) THEN <<>>
          ELSE <<Err(path, "malformed occurrence", ident, <<>>, -1, occs[1])>>)
         \o MalformedErrs(path, ident, Tail(occs))

SeqToSet(xs) == {xs[i] : i \in DOMAIN xs}

\* a plausible slip: the duplicate test leaving col_end out of the tuple
HasDuplicatesNoColEnd(keys) ==
    Len(keys) # Cardinality({SubSeq(keys[i].xs, 1, 3) : i \in DOMAIN keys})

\* len(keys) != len(set(keys))
HasDuplicates(keys) == Len(keys) # Cardinality(SeqToSet(keys))

\* a plausible slip: counting the occurrences that gave a key
OccurrenceCountOfKeys(occs) == Len(Keys(occs))

\* len(occs)
OccurrenceCount(occs) == Len(occs)

\* a plausible slip: the line number alone, whatever the file
LinePairLineOnly(o) == <<<<>>, PyInt(o.f.line).n>>

\* (str(o.get('file_id')), int(o.get('line')))
LinePair(o) == <<PyStr(o.f.file_id), PyInt(o.f.line).n>>

RECURSIVE UniqueLines(_, _)
\* the set comprehension of line 138, built occurrence by occurrence: the set
\* of (file_id, line) pairs, or the exception that ends it
UniqueLines(occs, pairs) ==
    IF occs = <<>> THEN [exc |-> "", pairs |-> pairs]
    ELSE LET o == occs[1]
             inF == In("file_id", o)
             inL == In("line", o)
         IN IF inF = "TypeError" THEN [exc |-> "TypeError", pairs |-> {}]
            ELSE IF inF = "no" \/ inL = "no" THEN UniqueLines(Tail(occs), pairs)
            ELSE IF ~PyInt(o.f.line).ok
                 THEN [exc |-> IntError(o.f.line), pairs |-> {}]
            ELSE UniqueLines(Tail(occs), pairs \cup {LinePair(o)})

\* the stats block of one symbol (lines 128-140)
CheckStats(path, ident, occs, stats) ==
    IF stats.t # "obj" THEN Went(<<>>)
    ELSE LET oc == Get(stats, "occurrence_count", None)
             ul == Get(stats, "unique_line_count", None)
             eOc == IF oc # None /\ PyInt(oc).n # OccurrenceCount(occs)
                    THEN <<Err(path, "stats.occurrence_count", ident, PyStr(oc),
                               OccurrenceCount(occs), None)>>
                    ELSE <<>>
             u == UniqueLines(occs, {})
             unique_lines == Cardinality(u.pairs)
             eUl == IF ul # None /\ PyInt(ul).n # unique_lines
                    THEN <<Err(path, "stats.unique_line_count", ident, PyStr(ul),
                               unique_lines, None)>>
                    ELSE <<>>
         IN IF oc # None /\ ~PyInt(oc).ok THEN Threw(IntError(oc))
            ELSE IF ul # None /\ u.exc # "" THEN Threw(u.exc)
            ELSE IF ul # None /\ ~PyInt(ul).ok THEN Threw(IntError(ul))
            ELSE Went(eOc \o eUl)

\* lines 122-126: the ordering and the duplicate message of one symbol's keys
KeyErrs(path, ident, keys) ==
    (IF ~_is_sorted(keys)
     THEN <<Err(path, "occurrences not sorted", ident, <<>>, -1, None)>>
     ELSE <<>>)
    \o (IF HasDuplicates(keys)
        THEN <<Err(path, "duplicate occurrences found", ident, <<>>, -1, None)>>
        ELSE <<>>)

\* the messages of one symbol once its stats block gave st
WithStats(before, st) ==
    IF st.exc # "" THEN Threw(st.exc) ELSE Went(before \o st.errs)

\* lines 109-140 for one symbol whose occurrences are the list occs
CheckOccurrences(path, ident, occs, stats) ==
    WithStats(MalformedErrs(path, ident, occs) \o KeyErrs(path, ident, Keys(occs)),
              CheckStats(path, ident, occs, stats))

\* lines 104-107 and on: occs as s.get('occurrences', []) gave it
CheckListed(path, ident, occs, stats) ==
    IF occs.t # "list"
    THEN Went(<<Err(path, "occurrences is not an array", ident, <<>>, -1, None)>>)
    ELSE CheckOccurrences(path, ident, occs.xs, stats)

\* the body of the loop over symbols (lines 103-140), s a dict
CheckSymbol(path, s) ==
    CheckListed(path, PyStr(Get(s, "identifier", JStr(MISSING))),
                Get(s, "occurrences", JList(<<>>)), Get(s, "stats", None))

RECURSIVE SymbolLoop(_, _, _)
RECURSIVE SymbolLoopNext(_, _, _, _)
\* for s in symbols: the messages of the symbols in order, up to an exception
SymbolLoop(path, symbols, errs) ==
    IF symbols = <<>> THEN Went(errs)
    ELSE SymbolLoopNext(path, symbols, errs, CheckSymbol(path, symbols[1]))

\* after the body gave r for symbols[1]
SymbolLoopNext(path, symbols, errs, r) ==
    IF r.exc # "" THEN Threw(r.exc)
    ELSE SymbolLoop(path, Tail(symbols), errs \o r.errs)

\* the identifiers as line 98 collects them
Idents(symbols) == [i \in DOMAIN symbols |-> Get(symbols[i], "identifier", JStr(<<>>))]

\* a plausible slip: one message for each out-of-order pair of neighbours
SymbolsOrderErrsPerPair(path, symbols) ==
    LET ids == Idents(symbols)
        bad == {i \in 2..Len(ids) : PyLess(ids[i], ids[i - 1])}
    IN [i \in 1..Cardinality(bad) |->
           Err(path, "symbols not sorted by identifier", <<>>, <<>>, -1, None)]

\* lines 98-100: the identifiers in document order, and the message when
\* they are out of order
SymbolsOrderErrs(path, symbols) ==
    IF ~_is_sorted(Idents(symbols))
    THEN <<Err(path, "symbols not sorted by identifier", <<>>, <<>>, -1, None)>>
    ELSE <<>>

\* lines 94-140: symbols as doc.get('symbols', []) gave it, errs the messages
\* so far.  A symbol that is no dict has no get: line 98 raises.
CheckSymbols(path, symbols, errs) ==
    IF symbols.t # "list"
    THEN Went(errs \o <<Err(path, "symbols is not an array", <<>>, <<>>, -1, None)>>)
    ELSE IF \E i \in DOMAIN symbols.xs : symbols.xs[i].t # "obj"
         THEN Threw("AttributeError")
    ELSE SymbolLoop(path, symbols.xs, errs \o SymbolsOrderErrs(path, symbols.xs))

\* lines 92-142, meta what the file metadata part gave
AfterMetadata(path, d, meta) ==
    IF meta.exc # "" THEN Threw(meta.exc)
    ELSE IF d.t # "obj" THEN Threw("AttributeError")
    ELSE CheckSymbols(path, Get(d, "symbols", JList(<<>>)), meta.errs)

\* a plausible slip: cross-checking files[] without asking whether the inputs
\* directory exists
check_symbol_index_doc_unguarded(path, d, dir) ==
    AfterMetadata(path, d, _check_file_metadata(path, d, dir))

check_symbol_index_doc(path, d, dir) ==
    AfterMetadata(path, d,
        IF dir.exists THEN _check_file_metadata(path, d, dir) ELSE Went(<<>>))

----------------------------------------------------------------------------
(* One symbol, drawn widely, alone or before a second symbol                *)

OccA == Occ(JStr(f1), JInt(1), JInt(0), JInt(0))
OccB == Occ(JStr(f1), JInt(1), JInt(0), JInt(1))      \* OccA but for col_end
OccC == Occ(JStr(f1), JInt(2), JInt(0), JInt(0))
OccD == Occ(JStr(f2), JInt(1), JInt(0), JInt(0))
OccE == Occ(JStr(f1), JStr(<<49>>), JInt(0), JInt(0)) \* line "1": OccA once coerced
OccNoColEnd == Occ(JStr(f1), JInt(2), JInt(0), Absent)
OccNoLine == Occ(JStr(f1), Absent, JInt(0), JInt(0))

SymOccs == {OccA, OccB, OccC, OccD, OccE, OccNoColEnd, OccNoLine}

\* f1 lines 1, 1, 2 and f2 line 1
ExampleOccs == <<OccA, OccB, OccC, OccD>>

NotANumber == JStr(<<120>>)                \* "x"

\* no stats; stats that is no object; an empty stats; stats with either count
\* or both, as a number, as text spelling a number, as text that spells none
SymStats ==
    {Absent, JStr(<<>>), Stats(Absent, Absent),
     Stats(JInt(1), Absent), Stats(JInt(2), Absent), Stats(JStr(<<50>>), Absent),
     Stats(NotANumber, Absent),
     Stats(Absent, JInt(1)), Stats(Absent, JInt(2)), Stats(Absent, JInt(3)),
     Stats(Absent, NotANumber),
     Stats(JInt(2), JInt(2)), Stats(JInt(3), JInt(1))}

SymOccurrences ==
    {JList(os) : os \in SeqsUpTo(SymOccs, MaxOccs) \cup {ExampleOccs}}
    \cup {Absent, JStr(<<>>)}

\* a second symbol whose occurrences are out of order
Trailer == Symbol(JStr(<<98>>), JList(<<OccC, OccA>>), Absent)

NoDir == Dir(FALSE, <<>>)

InitSym ==
    /\ \E os \in SymOccurrences, st \in SymStats, rest \in {<<>>, <<Trailer>>} :
          doc = Doc(Absent, Absent,
                    JList(<<Symbol(JStr(<<97>>), os, st)>> \o rest), Absent, Absent)
    /\ inputs_dir = NoDir
    /\ errs_ret = NotCalled
    /\ pc = "call"
    /\ IdleSorted /\ IdleLines /\ IdleMain /\ IdleReg

CallCheckSymbolIndexDoc ==
    /\ pc = "call"
    /\ errs_ret' = Outcome(check_symbol_index_doc(1, doc, inputs_dir))
    /\ pc' = "done"
    /\ UNCHANGED <<sortedVars, linesVars, doc, inputs_dir, mainVars, regVars>>

NextSym == CallCheckSymbolIndexDoc

SpecSym == InitSym /\ [][NextSym]_vars

\* the drawn symbol, its occurrences list ([] when it has none) and its stats
TheSymbol == doc.f.symbols.xs[1]
TheOccs == IF TheSymbol.f.occurrences = Absent THEN <<>> ELSE TheSymbol.f.occurrences.xs
TheStats == TheSymbol.f.stats
SymA == <<97>>

\* the check returned and the symbol's occurrences are a list (or left out)
SymChecked ==
    /\ pc = "done"
    /\ errs_ret.t = "return"
    /\ TheSymbol.f.occurrences # Absent => TheSymbol.f.occurrences.t = "list"

Carries(st, field) == st # Absent /\ st.t = "obj" /\ st.f[field] # Absent

ErrsOf(kind, who) == {i \in DOMAIN errs_ret.v :
                        errs_ret.v[i].kind = kind /\ errs_ret.v[i].who = who}

\* C8: an occurrence_count mismatch is reported iff stats is there, has
\* occurrence_count, and the value differs from the length of the occurrences
\* list; the message names both values; [(f1,1,0,0)] with occurrence_count 2
\* gives 2 against 1.  (Stated of the list the check returns.)
C8_OccurrenceCountMismatch ==
    SymChecked =>
        LET E == ErrsOf("stats.occurrence_count", SymA)
            wrong == /\ Carries(TheStats, "occurrence_count")
                     /\ Recorded(TheStats.f.occurrence_count) # Len(TheOccs)
        IN /\ Cardinality(E) = IF wrong THEN 1 ELSE 0
           /\ \A i \in E :
                /\ errs_ret.v[i].actual = Len(TheOccs)
                /\ errs_ret.v[i].stated = PyStr(TheStats.f.occurrence_count)
           /\ (TheOccs = <<OccA>> /\ TheStats = Stats(JInt(2), Absent)) =>
                \E i \in E : errs_ret.v[i].stated = <<50>> /\ errs_ret.v[i].actual = 1

\* [(f1,1,0,0)] with occurrence_count 2: the mismatch of 2 against 1
C8_Witness ==
    /\ SymChecked
    /\ TheOccs = <<OccA>>
    /\ TheStats = Stats(JInt(2), Absent)
    /\ \E i \in DOMAIN errs_ret.v :
          /\ errs_ret.v[i].kind = "stats.occurrence_count"
          /\ errs_ret.v[i].stated = <<50>>
          /\ errs_ret.v[i].actual = 1

\* the distinct (file_id, line) pairs of the occurrences that have both fields
FileLinePairs(occs) ==
    {<<PyStr(occs[i].f.file_id), Recorded(occs[i].f.line)>> :
        i \in {j \in DOMAIN occs : occs[j].f.file_id # Absent /\ occs[j].f.line # Absent}}

\* C7: a unique_line_count mismatch is reported iff stats is there, has
\* unique_line_count, and the value differs from the number of distinct
\* (file_id, line) pairs of the occurrences that have both fields; f1 lines
\* 1, 1, 2 and f2 line 1 count 3.  (Stated of the list the check returns.)
C7_UniqueLineCountMismatch ==
    SymChecked =>
        LET E == ErrsOf("stats.unique_line_count", SymA)
            n == Cardinality(FileLinePairs(TheOccs))
            wrong == /\ Carries(TheStats, "unique_line_count")
                     /\ Recorded(TheStats.f.unique_line_count) # n
        IN /\ Cardinality(E) = IF wrong THEN 1 ELSE 0
           /\ \A i \in E : errs_ret.v[i].actual = n
           /\ TheOccs = ExampleOccs => n = 3

\* f1 lines 1, 1, 2 and f2 line 1 with unique_line_count 2: a mismatch against 3
C7_Witness ==
    /\ SymChecked
    /\ TheOccs = ExampleOccs
    /\ TheStats = Stats(Absent, JInt(2))
    /\ \E i \in DOMAIN errs_ret.v :
          /\ errs_ret.v[i].kind = "stats.unique_line_count"
          /\ errs_ret.v[i].actual = 3

\* the occurrences that have the four fields, each a number or its spelling
WellFormedAt(occs) ==
    {i \in DOMAIN occs :
        \A k \in {"file_id", "line", "col_start", "col_end"} : occs[i].f[k] # Absent}

\* two occurrences equal on (file_id, line, col_start, col_end)
SameTuple(o1, o2) ==
    /\ PyStr(o1.f.file_id) = PyStr(o2.f.file_id)
    /\ Recorded(o1.f.line) = Recorded(o2.f.line)
    /\ Recorded(o1.f.col_start) = Recorded(o2.f.col_start)
    /\ Recorded(o1.f.col_end) = Recorded(o2.f.col_end)

Duplicated(occs) ==
    \E i, j \in WellFormedAt(occs) : i # j /\ SameTuple(occs[i], occs[j])

\* the stats block can be evaluated: each count it has is a number or spells one
StatsReadable(st) ==
    \A k \in {"occurrence_count", "unique_line_count"} :
        Carries(st, k) => PyInt(st.f[k]).ok

\* C5: a symbol gets a duplicate-occurrence message iff two of its well-formed
\* occurrences are equal on (file_id, line, col_start, col_end), and never more
\* than one; occurrences that differ only in col_end are no duplicates.  The
\* message ends nothing: the check returns whenever the stats can be read, the
\* symbol's stats messages follow the duplicate message, and the messages of
\* the next symbol follow those.
C5_DuplicateOccurrence ==
    LET D == ErrsOf("duplicate occurrences found", SymA)
        listed == TheSymbol.f.occurrences # Absent => TheSymbol.f.occurrences.t = "list"
    IN /\ (pc = "done" /\ listed /\ StatsReadable(TheStats)) => errs_ret.t = "return"
       /\ SymChecked =>
            /\ Cardinality(D) = IF Duplicated(TheOccs) THEN 1 ELSE 0
            /\ TheOccs = <<OccA, OccB>> => D = {}
            /\ \A d \in D :
                 /\ (/\ Carries(TheStats, "occurrence_count")
                     /\ Recorded(TheStats.f.occurrence_count) # Len(TheOccs))
                    => errs_ret.v[d + 1].kind = "stats.occurrence_count"
                 /\ Len(doc.f.symbols.xs) = 2 =>
                      /\ errs_ret.v[Len(errs_ret.v)].kind = "occurrences not sorted"
                      /\ errs_ret.v[Len(errs_ret.v)].who = <<98>>

\* three equal occurrences and a wrong occurrence_count, before a second
\* symbol: one duplicate message, then the stats message, then the second
\* symbol's message
C5_Witness ==
    /\ SymChecked
    /\ TheOccs = <<OccA, OccA, OccA>>
    /\ TheStats = Stats(JInt(2), Absent)
    /\ Len(doc.f.symbols.xs) = 2
    /\ Len(errs_ret.v) = 3
    /\ errs_ret.v[1].kind = "duplicate occurrences found"
    /\ errs_ret.v[2].kind = "stats.occurrence_count"
    /\ errs_ret.v[3].who = <<98>>

----------------------------------------------------------------------------
(* Whole documents: files[] and up to MaxSyms symbols                      *)

Clean(identifier) == Symbol(identifier, JList(<<OccA>>), Absent)

\* symbols that pass, one with occurrences out of order, and malformed ones: a
\* number where a symbol should be, occurrences that is no list, a number where
\* an occurrence should be (without and with a unique_line_count to check), a
\* line that is no number, an occurrence_count that is no number
DocSymbols ==
    {Clean(Absent), Clean(JStr(<<97>>)), Clean(JStr(<<98>>)), Trailer,
     JInt(7),
     Symbol(JStr(<<97>>), JStr(<<>>), Absent),
     Symbol(JStr(<<97>>), JList(<<JInt(5)>>), Absent),
     Symbol(JStr(<<97>>), JList(<<JInt(5)>>), Stats(Absent, JInt(1))),
     Symbol(JStr(<<97>>), JList(<<Occ(JStr(f1), NotANumber, JInt(0), JInt(0))>>),
            Stats(Absent, JInt(1))),
     Symbol(JStr(<<97>>), JList(<<OccA>>), Stats(NotANumber, Absent))}

DirA == Dir(TRUE, [n \in {NameA} |-> Content1])
GoodEntry == FileEntry(JStr(NameA), JInt(2), JInt(1), Absent)
WrongEntry == FileEntry(JStr(NameA), JInt(3), Absent, Absent)
BadBytesEntry == FileEntry(JStr(NameA), NotANumber, Absent, Absent)

\* files[] with the directory it is checked against
DocFiles ==
    {<<Absent, NoDir>>, <<Absent, DirA>>,
     <<JList(<<GoodEntry>>), DirA>>,
     <<JList(<<JInt(3), WrongEntry>>), DirA>>,
     <<JList(<<BadBytesEntry, WrongEntry>>), DirA>>,
     <<JList(<<BadBytesEntry>>), NoDir>>}

InitDoc ==
    /\ \E fd \in DocFiles, ss \in SeqsUpTo(DocSymbols, MaxSyms) :
          /\ doc = Doc(Absent, fd[1], JList(ss), Absent, Absent)
          /\ inputs_dir = fd[2]
    /\ errs_ret = NotCalled
    /\ pc = "call"
    /\ IdleSorted /\ IdleLines /\ IdleMain /\ IdleReg

NextDoc == CallCheckSymbolIndexDoc

SpecDoc == InitDoc /\ [][NextDoc]_vars

\* C6: the result holds exactly one 'symbols not sorted by identifier' message
\* when the identifiers in document order are not non-decreasing, however many
\* neighbours are out of order, and none when they are non-decreasing.
C6_OneSymbolsOrderingError ==
    (pc = "done" /\ errs_ret.t = "return") =>
        LET ids == [i \in DOMAIN doc.f.symbols.xs |->
                       IF doc.f.symbols.xs[i].f.identifier = Absent
                       THEN JStr(<<>>) ELSE doc.f.symbols.xs[i].f.identifier]
            n == Cardinality({i \in DOMAIN errs_ret.v :
                                errs_ret.v[i].kind = "symbols not sorted by identifier"})
        IN n = IF NonDecreasing(ids) THEN 0 ELSE 1

\* identifiers "b", "a", none: two pairs out of order, one message
C6_Witness ==
    /\ pc = "done"
    /\ errs_ret.t = "return"
    /\ doc.f.symbols.xs = <<Clean(JStr(<<98>>)), Clean(JStr(<<97>>)), Clean(Absent)>>
    /\ errs_ret.v = <<Err(1, "symbols not sorted by identifier", <<>>, <<>>, -1, None)>>

\* the messages one symbol gives when it is checked alone
AloneErrs(s) == check_symbol_index_doc(1, Doc(Absent, Absent, JList(<<s>>), Absent, Absent), NoDir)

\* C2: whatever sub-record of a document is malformed, check_symbol_index_doc
\* returns an error list, and the list holds the messages of every symbol that
\* can be checked alone and of every files[] entry.
C2_AccumulateAndReport ==
    pc = "done" =>
        /\ errs_ret.t = "return"
        /\ \A i \in DOMAIN doc.f.symbols.xs :
              LET r == AloneErrs(doc.f.symbols.xs[i])
              IN r.exc = "" => SeqToSet(r.errs) \subseteq SeqToSet(errs_ret.v)
        /\ (inputs_dir.exists /\ doc.f.files # Absent) =>
              \A i \in DOMAIN doc.f.files.xs :
                 LET r == CheckFileEntry(1, doc.f.files.xs[i], inputs_dir)
                 IN r.exc = "" => SeqToSet(r.errs) \subseteq SeqToSet(errs_ret.v)

\* the occurrences of a symbol ([] when it has none)
OccsOf(s) == IF s.f.occurrences = Absent THEN <<>> ELSE s.f.occurrences.xs

\* every symbol is an object whose occurrences are a list (or left out) and
\* whose stats counts, if any, are numbers
SymbolsListed ==
    \A i \in DOMAIN doc.f.symbols.xs :
        LET s == doc.f.symbols.xs[i]
        IN /\ s.t = "obj"
           /\ s.f.occurrences # Absent => s.f.occurrences.t = "list"
           /\ StatsReadable(s.f.stats)

\* the occurrences, over all symbols, that lack one of the four fields or
\* hold a line or column that is no number
MalformedAt ==
    {<<i, j>> \in (DOMAIN doc.f.symbols.xs) \X (1..MaxOccs) :
        /\ j \in DOMAIN OccsOf(doc.f.symbols.xs[i])
        /\ ~WellFormed(OccsOf(doc.f.symbols.xs[i])[j])}

\* C16: when an occurrence of a symbol is malformed, the check still returns:
\* the list holds exactly one 'malformed occurrence' message for each
\* malformed occurrence, and the messages of the later symbols, as each gives
\* them alone, are in it.
C16_MalformedOccurrenceExcluded ==
    (pc = "done" /\ ~inputs_dir.exists /\ SymbolsListed /\ MalformedAt # {}) =>
        /\ errs_ret.t = "return"
        /\ Cardinality({k \in DOMAIN errs_ret.v :
                          errs_ret.v[k].kind = "malformed occurrence"})
              = Cardinality(MalformedAt)
        /\ \A i \in DOMAIN doc.f.symbols.xs :
              SeqToSet(AloneErrs(doc.f.symbols.xs[i]).errs) \subseteq SeqToSet(errs_ret.v)

----------------------------------------------------------------------------
(* files[] against an inputs directory that may not exist                   *)

InitFiles ==
    /\ \E fs \in SeqsUpTo(MetaEntries, MaxFiles) :
          doc = Doc(Absent, JList(fs), Absent, Absent, Absent)
    /\ inputs_dir \in MetaDirs \cup {NoDir}
    /\ errs_ret = NotCalled
    /\ pc = "call"
    /\ IdleSorted /\ IdleLines /\ IdleMain /\ IdleReg

NextFiles == CallCheckSymbolIndexDoc

SpecFiles == InitFiles /\ [][NextFiles]_vars

\* the entries of files[] that name the file, when the directory has no such file
MissingEntriesOf(files, dir, name) ==
    {i \in DOMAIN files :
        /\ HasItem(files[i], "file_id")
        /\ PyStr(files[i].f.file_id) = name
        /\ name \notin DOMAIN dir.files}

\* C17: when the inputs directory exists, each files[] entry whose file is not
\* in it gives exactly one 'input file missing' message and no bytes, lines
\* or sha256 message, whatever it records, and an entry after it whose file is
\* there and whose byte count is wrong still gets its message; when the
\* inputs directory does not exist the check returns no message at all,
\* whatever files[] holds.
C17_MissingInputFile ==
    pc = "done" =>
        /\ ~inputs_dir.exists => errs_ret = Returned(<<>>)
        /\ (inputs_dir.exists /\ errs_ret.t = "return") =>
              LET files == doc.f.files.xs
              IN \A name \in {NameA, NameB} :
                    LET M == MissingEntriesOf(files, inputs_dir, name)
                    IN /\ CountErrs(errs_ret.v, "input file missing", name)
                            = Cardinality(M)
                       /\ M # {} =>
                            \A kind \in {"bytes", "lines", "sha256 mismatch"} :
                               CountErrs(errs_ret.v, kind, name) = 0
                       /\ \A i \in M, other \in {NameA, NameB} :
                            \A j \in EntriesOf(files, inputs_dir, other) :
                               (/\ j > i
                                /\ files[j].f.bytes # Absent
                                /\ Recorded(files[j].f.bytes)
                                     # Len(Lookup(inputs_dir, other)))
                               => CountErrs(errs_ret.v, "bytes", other) >= 1

\* an entry for the file "b", which the directory lacks, before an entry for
\* "a" with a wrong byte count: one 'input file missing' message, then the
\* bytes message of the second entry
C17_Witness ==
    /\ pc = "done"
    /\ inputs_dir = DirA
    /\ doc.f.files.xs = <<FileEntry(JStr(NameB), JInt(2), Absent, Absent),
                          FileEntry(JStr(NameA), JInt(3), Absent, Absent)>>
    /\ errs_ret = Returned(
         <<Err(1, "input file missing", NameB, <<>>, -1, None),
           Err(1, "bytes", NameA, <<51>>, 2, None)>>)

----------------------------------------------------------------------------
(* check_project_index                                                     *)

\* a plausible slip: positions counted from 1
TaggedOneBased(errs, i) == [k \in DOMAIN errs |-> [errs[k] EXCEPT !.tag = i + 1]]

\* e.replace(str(expected_path), f"{expected_path} (indexes[{i}])") on every
\* message of a sub-index: the path at the head of the message gets the tag.
\* (No identifier or file id drawn holds the text of a path, so the path at
\* the head is the only place the replacement finds.)
Tagged(errs, i) == [k \in DOMAIN errs |-> [errs[k] EXCEPT !.tag = i]]

RECURSIVE IndexLoop(_, _, _, _, _)
RECURSIVE IndexLoopNext(_, _, _, _, _, _)
\* for i, idx in enumerate(indexes), from entry i (counted from 0)
IndexLoop(path, indexes, dir, i, errs) ==
    IF i >= Len(indexes) THEN Went(errs)
    ELSE IF indexes[i + 1].t # "obj"
         THEN IndexLoop(path, indexes, dir, i + 1,
                  errs \o <<[Err(path, "ProjectIndex.indexes[i] is not an object",
                                 <<>>, <<>>, -1, None) EXCEPT !.tag = i]>>)
    ELSE IndexLoopNext(path, indexes, dir, i, errs,
                       check_symbol_index_doc(path, indexes[i + 1], dir))

\* after check_symbol_index_doc gave sub for entry i
IndexLoopNext(path, indexes, dir, i, errs, sub) ==
    IF sub.exc # "" THEN Threw(sub.exc)
    ELSE IndexLoop(path, indexes, dir, i + 1, errs \o Tagged(sub.errs, i))

\* the profile ids as line 153 collects them
ProfileIds(indexes) == [i \in DOMAIN indexes |-> Get(indexes[i], "profile_id", JStr(<<>>))]

\* a plausible slip: one message for each out-of-order pair of neighbours
IndexesOrderErrsPerPair(path, indexes) ==
    LET ids == ProfileIds(indexes)
        bad == {i \in 2..Len(ids) : PyLess(ids[i], ids[i - 1])}
    IN [i \in 1..Cardinality(bad) |->
           Err(path, "ProjectIndex.indexes not sorted by profile_id",
               <<>>, <<>>, -1, None)]

\* lines 153-155: the profile ids in document order, and the message when
\* they are out of order; the message has the path as it is, with no tag
IndexesOrderErrs(path, indexes) ==
    IF ~_is_sorted(ProfileIds(indexes))
    THEN <<Err(path, "ProjectIndex.indexes not sorted by profile_id",
               <<>>, <<>>, -1, None)>>
    ELSE <<>>

\* An entry that is no dict has no get: line 153 raises before the loop of
\* line 157 can report it.
check_project_index(path, d, dir) ==
    LET indexes == Get(d, "indexes", JList(<<>>))
    IN IF indexes.t # "list"
       THEN Went(<<Err(path, "ProjectIndex.indexes is not an array", <<>>, <<>>, -1, None)>>)
       ELSE IF \E i \in DOMAIN indexes.xs : indexes.xs[i].t # "obj"
            THEN Threw("AttributeError")
       ELSE IndexLoop(path, indexes.xs, dir, 0, IndexesOrderErrs(path, indexes.xs))

----------------------------------------------------------------------------
(* ProjectIndex documents: up to MaxIndexes entries                         *)

V23 == JStr(<<50, 46, 51>>)                \* "2.3"
Go == JStr(<<103, 111>>)                   \* "go"
Python == JStr(<<112, 121>>)               \* "python"

SymbolsDoc(ss) == Doc(Absent, Absent, JList(ss), Absent, Absent)
SubIndex(profile_id, ss) == Doc(Absent, Absent, JList(ss), Absent, profile_id)
ProjectDoc(entries) == Doc(V23, Absent, Absent, JList(entries), Absent)

\* the symbols of an entry: none, one that passes, two that pass but are out
\* of order, one whose occurrences are out of order
EntrySymbols ==
    {<<>>, <<Clean(JStr(<<97>>))>>, <<Clean(JStr(<<98>>)), Clean(JStr(<<97>>))>>,
     <<Trailer>>}

\* entries with no profile_id, "go" and "python" and each of the symbol lists;
\* an entry with a wrong files[] entry; an entry whose symbol is a number; a
\* number where an entry should be
ProjectEntries ==
    {SubIndex(p, ss) : p \in {Absent, Go, Python}, ss \in EntrySymbols}
    \cup {Doc(Absent, JList(<<WrongEntry>>), Absent, Absent, Go),
          SubIndex(Python, <<JInt(7)>>),
          JInt(5)}

InitProj ==
    /\ \/ \E es \in SeqsUpTo(ProjectEntries, MaxIndexes) : doc = ProjectDoc(es)
       \/ doc = Doc(V23, Absent, Absent, JStr(<<120>>), Absent)
       \/ doc = Doc(V23, Absent, Absent, Absent, Absent)
    /\ inputs_dir \in {NoDir, DirA}
    /\ errs_ret = NotCalled
    /\ pc = "call"
    /\ IdleSorted /\ IdleLines /\ IdleMain /\ IdleReg

CallCheckProjectIndex ==
    /\ pc = "call"
    /\ errs_ret' = Outcome(check_project_index(1, doc, inputs_dir))
    /\ pc' = "done"
    /\ UNCHANGED <<sortedVars, linesVars, doc, inputs_dir, mainVars, regVars>>

NextProj == CallCheckProjectIndex

SpecProj == InitProj /\ [][NextProj]_vars

\* the entries of indexes ([] when the document has none)
TheIndexes == IF doc.f.indexes = Absent THEN <<>> ELSE doc.f.indexes.xs

\* indexes is a list (or left out)
IndexesListed == doc.f.indexes # Absent => doc.f.indexes.t = "list"

\* what check_symbol_index_doc gives for entry i (counted from 1) taken alone
AloneIndex(i) == check_symbol_index_doc(1, TheIndexes[i], inputs_dir)

\* the profile ids in document order, '' for an entry that has none
TheProfileIds ==
    [i \in DOMAIN TheIndexes |->
        IF TheIndexes[i].f.profile_id = Absent THEN JStr(<<>>)
        ELSE TheIndexes[i].f.profile_id]

\* the positions of the messages of this wording in the returned list
Worded(kind) == {k \in DOMAIN errs_ret.v : errs_ret.v[k].kind = kind}

RECURSIVE EntryErrsFrom(_)
\* the messages of the entries from position i on, each entry's as it gives
\* them alone, carrying the entry's position counted from 0
EntryErrsFrom(i) ==
    IF i > Len(TheIndexes) THEN <<>>
    ELSE [k \in DOMAIN AloneIndex(i).errs |->
             [AloneIndex(i).errs[k] EXCEPT !.tag = i - 1]]
         \o EntryErrsFrom(i + 1)

\* every entry is an object whose check returns when it is taken alone
EntriesCheckable ==
    \A i \in DOMAIN TheIndexes :
        TheIndexes[i].t = "obj" /\ AloneIndex(i).exc = ""

\* C11: when every entry of indexes can be checked alone,
\* check_project_index returns the indexes-ordering message, if any, followed
\* for each entry in position order by exactly the messages
\* check_symbol_index_doc gives for that entry alone, each carrying the
\* entry's position; and whenever it returns, every entry could be checked
\* alone.  Profile ids go, python with the symbols out of order only inside
\* python give one message, tagged indexes[1].
C11_ProjectIndexIsPerEntryChecks ==
    (pc = "done" /\ IndexesListed) =>
        /\ errs_ret.t = "return" <=> EntriesCheckable
        /\ errs_ret.t = "return" =>
              \E n \in {0, 1} :
                 /\ \A k \in 1..n :
                       /\ errs_ret.v[k].tag = -1
                       /\ errs_ret.v[k].kind =
                             "ProjectIndex.indexes not sorted by profile_id"
                 /\ SubSeq(errs_ret.v, n + 1, Len(errs_ret.v)) = EntryErrsFrom(1)

\* go with symbols in order, python with symbols out of order: one message,
\* tagged indexes[1]
C11_Witness ==
    /\ pc = "done"
    /\ doc = ProjectDoc(<<SubIndex(Go, <<Clean(JStr(<<97>>))>>),
                          SubIndex(Python, <<Clean(JStr(<<98>>)), Clean(JStr(<<97>>))>>)>>)
    /\ errs_ret = Returned(<<[Err(1, "symbols not sorted by identifier",
                                  <<>>, <<>>, -1, None) EXCEPT !.tag = 1]>>)

\* C18: the returned list holds exactly one 'indexes not sorted by
\* profile_id' message when the profile ids in document order are not
\* non-decreasing and none when they are; the message carries no entry
\* position and comes first; and whether or not it is there, the messages of
\* every entry follow it.
C18_OneIndexesOrderingError ==
    (pc = "done" /\ IndexesListed /\ errs_ret.t = "return") =>
        LET O == Worded("ProjectIndex.indexes not sorted by profile_id")
            n == IF NonDecreasing(TheProfileIds) THEN 0 ELSE 1
        IN /\ Cardinality(O) = n
           /\ \A k \in O : k = 1 /\ errs_ret.v[k].tag = -1
           /\ \A i \in DOMAIN TheIndexes :
                 \A e \in SeqToSet(AloneIndex(i).errs) :
                    \E k \in (n + 1)..Len(errs_ret.v) :
                       errs_ret.v[k] = [e EXCEPT !.tag = i - 1]

\* profile ids python, go, none: two pairs out of order, one message with no
\* position, and the message of the entry at position 1 after it
C18_Witness ==
    /\ pc = "done"
    /\ doc = ProjectDoc(<<SubIndex(Python, <<>>), SubIndex(Go, <<Trailer>>),
                          SubIndex(Absent, <<>>)>>)
    /\ errs_ret = Returned(
         <<Err(1, "ProjectIndex.indexes not sorted by profile_id", <<>>, <<>>, -1, None),
           [Err(1, "occurrences not sorted", <<98>>, <<>>, -1, None) EXCEPT !.tag = 1]>>)

\* an entry of indexes that is no object
NonObjectAt == {i \in DOMAIN TheIndexes : TheIndexes[i].t # "obj"}

\* C19: when indexes holds an entry that is no object at position i,
\* check_project_index returns, the list holds an 'indexes[i] is not an
\* object' message for that position, and the messages of every other entry
\* that can be checked alone are in the list.
C19_NonObjectEntryReported ==
    (pc = "done" /\ IndexesListed /\ NonObjectAt # {}) =>
        /\ errs_ret.t = "return"
        /\ \A i \in NonObjectAt :
              \E k \in DOMAIN errs_ret.v :
                 /\ errs_ret.v[k].kind = "ProjectIndex.indexes[i] is not an object"
                 /\ errs_ret.v[k].tag = i - 1
        /\ \A i \in DOMAIN TheIndexes \ NonObjectAt :
              AloneIndex(i).exc = "" =>
                 \A e \in SeqToSet(AloneIndex(i).errs) :
                    [e EXCEPT !.tag = i - 1] \in SeqToSet(errs_ret.v)

----------------------------------------------------------------------------
(* main                                                                    *)

\* the text of an expected file that json.loads rejects
Unparsable == [t |-> "invalid json"]

\* an expected file: what its text parses to, and the inputs directory of its case
ExpectedFile(parsed, dir) == [parsed |-> parsed, dir |-> dir]

\* a file that is no JSON; documents with no, one and two messages; a document
\* whose symbol is a number; a top-level array; an object of an unknown
\* version with no SymbolIndex field; a document with a wrong files[] entry;
\* project wrappers: sorted with symbols out of order inside "python", and
\* with the profile ids out of order
MainFiles ==
    {ExpectedFile(Unparsable, NoDir),
     ExpectedFile(SymbolsDoc(<<Clean(JStr(<<97>>))>>), NoDir),
     ExpectedFile(SymbolsDoc(<<Trailer>>), NoDir),
     ExpectedFile(SymbolsDoc(<<Trailer, Clean(JStr(<<97>>))>>), NoDir),
     ExpectedFile(SymbolsDoc(<<JInt(7)>>), NoDir),
     ExpectedFile(JList(<<>>), NoDir),
     ExpectedFile(Doc(JStr(<<57>>), Absent, Absent, Absent, Absent), NoDir),
     ExpectedFile(Doc(Absent, JList(<<WrongEntry>>), Absent, Absent, Absent), DirA),
     ExpectedFile(ProjectDoc(<<SubIndex(Go, <<Clean(JStr(<<97>>))>>),
                               SubIndex(Python, <<Clean(JStr(<<98>>)), Clean(JStr(<<97>>))>>)>>),
                  NoDir),
     ExpectedFile(ProjectDoc(<<SubIndex(Python, <<>>), SubIndex(Go, <<Trailer>>)>>), NoDir)}

\* paths, named by their rank in path order
Paths == 1..MaxDocs

\* the corpus directory: whether it exists, and the expected files under it
Corpus(exists, files) == [exists |-> exists, files |-> files]

RECURSIVE SortedDescending(_)
\* a plausible slip: the discovered paths in descending order
SortedDescending(S) ==
    IF S = {} THEN <<>>
    ELSE LET m == CHOOSE x \in S : \A y \in S : x >= y
         IN <<m>> \o SortedDescending(S \ {m})

RECURSIVE Sorted(_)
\* sorted(...) of a set of paths
Sorted(S) ==
    IF S = {} THEN <<>>
    ELSE LET m == CHOOSE x \in S : \A y \in S : x <= y
         IN <<m>> \o Sorted(S \ {m})

\* the corpus directories drawn: none, or one holding expected files at some paths
Corpora ==
    {Corpus(FALSE, <<>>)}
    \cup {Corpus(TRUE, files) : files \in UNION {[P -> MainFiles] : P \in SUBSET Paths}}

Init ==
    /\ corpus \in Corpora
    /\ expected_files = <<>>
    /\ idx = 0
    /\ all_errs = <<>>
    /\ uncaught = ""
    /\ exit_code = -1
    /\ pc = "start"
    /\ IdleSorted /\ IdleLines /\ IdleDoc /\ IdleReg

\* lines 173-185: no corpus directory or no expected file ends the run with 1
Discover ==
    /\ pc = "start"
    /\ IF ~corpus.exists
       THEN /\ exit_code' = 1 /\ pc' = "exit"
            /\ UNCHANGED expected_files
       ELSE /\ expected_files' = Sorted(DOMAIN corpus.files)
            /\ IF DOMAIN corpus.files = {}
               THEN exit_code' = 1 /\ pc' = "exit"
               ELSE exit_code' = exit_code /\ pc' = "loop"
    /\ idx' = 1
    /\ all_errs' = <<>>
    /\ UNCHANGED <<sortedVars, linesVars, docVars, regVars, corpus, uncaught>>

\* lines 191-194: the check the document is given to
Dispatch(p, file) ==
    IF file.parsed.t = "obj" /\ Get(file.parsed, "schema_version", None) = V23
    THEN check_project_index(p, file.parsed, file.dir)
    ELSE check_symbol_index_doc(p, file.parsed, file.dir)

\* lines 187-194: json.loads, then the check the document is given to
Load(p, file) ==
    IF file.parsed = Unparsable THEN Threw("JSONDecodeError") ELSE Dispatch(p, file)

\* one pass of the loop of lines 186-194.  Nothing in main catches an
\* exception of json.loads or of a check: it ends the run there, and the
\* interpreter exits with status 1.
ValidateNext ==
    /\ pc = "loop"
    /\ idx <= Len(expected_files)
    /\ \E r \in {Load(expected_files[idx], corpus.files[expected_files[idx]])} :
          IF r.exc # ""
          THEN /\ uncaught' = r.exc
               /\ exit_code' = 1
               /\ pc' = "exit"
               /\ UNCHANGED <<idx, all_errs>>
          ELSE /\ all_errs' = all_errs \o r.errs
               /\ idx' = idx + 1
               /\ UNCHANGED <<uncaught, exit_code, pc>>
    /\ UNCHANGED <<sortedVars, linesVars, docVars, regVars, corpus, expected_files>>

\* a plausible slip: success whatever was collected
FinalStatusAlwaysZero(errs) == 0

\* lines 196-203: 1 when there is a message, else 0
FinalStatus(errs) == IF errs # <<>> THEN 1 ELSE 0

Report ==
    /\ pc = "loop"
    /\ idx > Len(expected_files)
    /\ exit_code' = FinalStatus(all_errs)
    /\ pc' = "exit"
    /\ UNCHANGED <<sortedVars, linesVars, docVars, regVars, corpus, expected_files, idx,
                   all_errs, uncaught>>

Next == Discover \/ ValidateNext \/ Report

Spec == Init /\ [][Next]_vars

\* an expected file that is no JSON was discovered
SomeUnparsable == \E p \in DOMAIN corpus.files : corpus.files[p].parsed = Unparsable

\* C3: when a discovered document fails to parse, it alone is skipped: main
\* goes on through every remaining document and ends with status 1 after all
\* of them.
C3_ParseFailureSkipsDocument ==
    (pc = "exit" /\ corpus.exists /\ SomeUnparsable) =>
        /\ idx = Len(expected_files) + 1
        /\ exit_code = 1

\* C4 as claimed: the run ends with 0 iff the combined error list is empty and
\* with 1 otherwise, also when no document is discovered.  (Stated of the runs
\* that no exception ends.)
C4_ExitZeroIffNoErrors ==
    (pc = "exit" /\ uncaught = "") =>
        /\ exit_code \in {0, 1}
        /\ exit_code = 0 <=> all_errs = <<>>

\* C4 amended: the run ends with 0 iff at least one document was discovered,
\* no exception ended the run and the combined error list is empty, and with 1
\* in every other case; no corpus directory and no discovered document both
\* end with 1 and no message.
C4_ExitZeroIffDocsAndNoErrors ==
    pc = "exit" =>
        /\ exit_code \in {0, 1}
        /\ exit_code = 0 <=>
              /\ corpus.exists
              /\ DOMAIN corpus.files # {}
              /\ uncaught = ""
              /\ all_errs = <<>>

\* a corpus directory with no expected file: status 1, no message
C4_Witness ==
    /\ pc = "exit"
    /\ corpus.exists
    /\ expected_files = <<>>
    /\ all_errs = <<>>
    /\ exit_code = 1

\* a parsed document that is neither a project wrapper nor, by its shape, a
\* SymbolIndex: no object, or an object with a schema_version other than
\* "2.3" and neither symbols nor files
Unrecognized(file) ==
    /\ file.parsed # Unparsable
    /\ \/ file.parsed.t # "obj"
       \/ /\ file.parsed.f.schema_version \notin {Absent, V23}
          /\ file.parsed.f.symbols = Absent
          /\ file.parsed.f.files = Absent

\* the messages about the document at path p
ErrsAbout(p) == {k \in DOMAIN all_errs : all_errs[k].path = p}

\* C14: in a run whose other documents can all be checked, each unrecognized
\* document gives exactly one schema-version-unrecognized message and is
\* skipped: the run goes through every document and ends with that message in
\* the report.
C14_UnrecognizedDocumentReported ==
    (/\ pc = "exit"
     /\ corpus.exists
     /\ \A p \in DOMAIN corpus.files :
           Unrecognized(corpus.files[p]) \/ Load(p, corpus.files[p]).exc = "")
    => \A p \in DOMAIN corpus.files :
          Unrecognized(corpus.files[p]) =>
             /\ uncaught = ""
             /\ idx = Len(expected_files) + 1
             /\ Cardinality(ErrsAbout(p)) = 1
             /\ \A k \in ErrsAbout(p) : all_errs[k].kind = "schema version unrecognized"

RECURSIVE ErrsUpTo(_)
\* the error lists of the first k discovered documents, one after the other
ErrsUpTo(k) ==
    IF k = 0 THEN <<>>
    ELSE ErrsUpTo(k - 1)
         \o Load(expected_files[k], corpus.files[expected_files[k]]).errs

\* the documents are taken in ascending path order, and the combined list is
\* the lists of the documents gone through so far, in that order
InDiscoveryOrder ==
    (pc \in {"loop", "exit"} /\ corpus.exists) =>
        /\ SeqToSet(expected_files) = DOMAIN corpus.files
        /\ \A i, j \in DOMAIN expected_files :
              i < j => expected_files[i] < expected_files[j]
        /\ idx \in 1..(Len(expected_files) + 1)
        /\ all_errs = ErrsUpTo(idx - 1)
        /\ \A i, j \in DOMAIN all_errs : i < j => all_errs[i].path <= all_errs[j].path

\* a step goes on by at most one document and only adds to the end of the list
AppendOnly ==
    /\ idx' \in {idx, idx + 1}
    /\ Len(all_errs') >= Len(all_errs)
    /\ SubSeq(all_errs', 1, Len(all_errs)) = all_errs
    /\ idx' = idx => all_errs' = all_errs

\* C15: the documents are gone through one at a time in ascending path order;
\* at every point of the run the combined list is the concatenation, in that
\* order, of the lists of the documents gone through so far, so the messages
\* of a smaller path come before those of a larger one and the list is a
\* function of the inputs; and every step leaves the list as it is or adds to
\* its end.
C15_AppendOnlyInPathOrder == [] InDiscoveryOrder /\ [][AppendOnly]_vars

\* documents at paths 1 and 3, each with one message: the message of path 1
\* before the message of path 3
C15_Witness ==
    /\ pc = "exit"
    /\ expected_files = <<1, 3>>
    /\ all_errs = <<Err(1, "occurrences not sorted", <<98>>, <<>>, -1, None),
                    Err(3, "occurrences not sorted", <<98>>, <<>>, -1, None)>>

----------------------------------------------------------------------------
(* profile_registry.py: resolve_profile                                    *)

\* text cut at each "/" (code point 47), as str.split('/') cuts it
RECURSIVE SplitFrom(_, _)
SplitFrom(s, cur) ==
    IF s = <<>> THEN <<cur>>
    ELSE IF s[1] = 47 THEN <<cur>> \o SplitFrom(Tail(s), <<>>)
    ELSE SplitFrom(Tail(s), Append(cur, s[1]))

Split(s) == SplitFrom(s, <<>>)

\* Path(text).parts for a relative path: the segments between slashes, the
\* empty ones and the "." ones dropped
Parts(s) ==
    LET raw == Split(s)
    IN SelectSeq(raw, LAMBDA seg : seg # <<>> /\ seg # <<46>>)

RECURSIVE Join(_)
\* '/'.join(parts)
Join(parts) ==
    IF parts = <<>> THEN <<>>
    ELSE IF Len(parts) = 1 THEN parts[1]
    ELSE parts[1] \o <<47>> \o Join(Tail(parts))

\* Path(text).as_posix(): "." for a path with no segment
AsPosix(s) == IF Parts(s) = <<>> THEN <<46>> ELSE Join(Parts(s))

\* the length of the longest common prefix of two segment lists
CommonPrefix(a, b) ==
    LET m == IF Len(a) < Len(b) THEN Len(a) ELSE Len(b)
        D == {i \in 1..m : a[i] # b[i]}
    IN IF D = {} THEN m ELSE (CHOOSE i \in D : \A j \in D : i <= j) - 1

\* os.path.relpath(p, root) for two relative paths with no ".." segment: one
\* ".." for each segment of root after the common prefix, then the rest of p
RelPath(p, start) ==
    LET pl == Parts(p)
        sl == Parts(start)
        i == CommonPrefix(pl, sl)
        up == [k \in 1..(Len(sl) - i) |-> <<46, 46>>]
        rel == up \o SubSeq(pl, i + 1, Len(pl))
    IN IF rel = <<>> THEN <<46>> ELSE Join(rel)

\* lines 44-48: the path the globs are tried on
Rel(file_path_, root_) ==
    IF root_ # None THEN AsPosix(RelPath(file_path_, root_.s)) ELSE AsPosix(file_path_)

RECURSIVE FnMatch(_, _)
\* fnmatch of one segment against one pattern segment: "*" (code point 42)
\* stands for any run of characters, every other character for itself
FnMatch(name, pat) ==
    IF pat = <<>> THEN name = <<>>
    ELSE IF pat[1] = 42
         THEN FnMatch(name, Tail(pat)) \/ (name # <<>> /\ FnMatch(Tail(name), pat))
    ELSE name # <<>> /\ name[1] = pat[1] /\ FnMatch(Tail(name), Tail(pat))

\* Path(rel).match(pattern), the fallback of line 37: the segments of a
\* relative pattern are tried against the last segments of the path, one
\* pattern segment for one path segment ("**" is then no more than "*")
PathMatch(rel, pattern) ==
    LET parts == Parts(rel)
        pats == Parts(pattern)
        d == Len(parts) - Len(pats)
    IN /\ d >= 0
       /\ \A k \in DOMAIN pats : FnMatch(parts[k + d], pats[k])

RECURSIVE WildMatch(_, _)
\* git wildmatch of pattern segments against the leading path segments: "**"
\* stands for any number of directories (at the end: for everything below),
\* any other segment for one path segment, and a pattern that matches a
\* directory matches every path below it
WildMatch(parts, pats) ==
    IF pats = <<>> THEN TRUE
    ELSE IF pats[1] = <<42, 42>>
         THEN IF Len(pats) = 1 THEN parts # <<>>
              ELSE WildMatch(parts, Tail(pats))
                   \/ (parts # <<>> /\ WildMatch(Tail(parts), pats))
    ELSE parts # <<>> /\ FnMatch(parts[1], pats[1]) /\ WildMatch(Tail(parts), Tail(pats))

\* PathSpec.from_lines(GitWildMatchPattern, [pattern]).match_file(rel), lines
\* 33-35: a pattern with no slash is tried at every depth, one with a slash
\* from the top
GitWildMatch(rel, pattern) ==
    LET pats == Split(pattern)
    IN IF Len(pats) = 1 /\ pats[1] # <<42, 42>>
       THEN WildMatch(Parts(rel), <<<<42, 42>>>> \o pats)
       ELSE WildMatch(Parts(rel), pats)

\* the optional import of lines 17-21 gave the library
Installed == [t |-> "class"]

_match_glob(pattern, rel_posix, lib) ==
    IF lib # None THEN GitWildMatch(rel_posix, pattern)
    ELSE PathMatch(rel_posix, pattern)

\* an exception with the text it carries
RaisedWith(exc, msg) == [t |-> "raise", exc |-> exc, msg |-> msg]

UnknownAlias == RaisedWith("ValueError", "Registry rule refers to unknown profile alias")
NoMatch == RaisedWith("ValueError", "No matching profile rule for file")

\* lines 53-56: the rule matched
Chosen(profiles, alias) ==
    IF alias \notin DOMAIN profiles THEN UnknownAlias
    ELSE Returned(<<alias, profiles[alias]>>)

RECURSIVE RuleLoopLastWins(_, _, _, _)
\* a plausible slip: a later matching rule overrides an earlier one
RuleLoopLastWins(profiles, rules, rel, lib) ==
    IF rules = <<>> THEN NoMatch
    ELSE IF _match_glob(rules[Len(rules)].match.glob, rel, lib)
         THEN Chosen(profiles, rules[Len(rules)].profile)
    ELSE RuleLoopLastWins(profiles, SubSeq(rules, 1, Len(rules) - 1), rel, lib)

RECURSIVE RuleLoopSkipUnknown(_, _, _, _)
\* a plausible slip: a matching rule with an unknown alias is passed over
RuleLoopSkipUnknown(profiles, rules, rel, lib) ==
    IF rules = <<>> THEN NoMatch
    ELSE IF /\ _match_glob(rules[1].match.glob, rel, lib)
            /\ rules[1].profile \in DOMAIN profiles
         THEN Chosen(profiles, rules[1].profile)
    ELSE RuleLoopSkipUnknown(profiles, Tail(rules), rel, lib)

RECURSIVE RuleLoop(_, _, _, _)
\* lines 50-58: for rule in rules, and the raise after the loop
RuleLoop(profiles, rules, rel, lib) ==
    IF rules = <<>> THEN NoMatch
    ELSE IF _match_glob(rules[1].match.glob, rel, lib)
         THEN Chosen(profiles, rules[1].profile)
    ELSE RuleLoop(profiles, Tail(rules), rel, lib)

resolve_profile(registry_, file_path_, root_, lib) ==
    RuleLoop(registry_.profiles, registry_.rules, Rel(file_path_, root_), lib)

\* aliases and definition paths
Py == <<112, 121>>                                  \* "py"
Fallback == <<102, 97, 108, 108, 98, 97, 99, 107>>  \* "fallback"
Ghost == <<103, 104, 111, 115, 116>>                \* "ghost", in no profiles
PyJson == <<112, 46, 106>>                          \* "p.j"
FallbackJson == <<102, 46, 106>>                    \* "f.j"

GlobPy == <<42, 46, 112, 121>>                      \* "*.py"
GlobAll == <<42, 42, 47, 42>>                       \* "**/*"
GlobS == <<115, 47, 42>>                            \* "s/*"

Rule(glob, profile) == [match |-> [glob |-> glob], profile |-> profile]

Registry(profiles, rules) == [profiles |-> profiles, rules |-> rules]

TheProfiles == [al \in {Py, Fallback} |-> IF al = Py THEN PyJson ELSE FallbackJson]

\* the rules drawn: each glob with a known alias and with the unknown one
Rules ==
    {Rule(GlobPy, Py), Rule(GlobPy, Ghost),
     Rule(GlobAll, Fallback), Rule(GlobAll, Ghost),
     Rule(GlobS, Py), Rule(GlobS, Fallback)}

\* the queries drawn, file path and root: "x.py", "a", "./x.py", "s/x.py" and
\* "s/a" with no root, and the last two with the root "s"
Queries ==
    {<<<<120, 46, 112, 121>>, None>>,
     <<<<97>>, None>>,
     <<<<46, 47, 120, 46, 112, 121>>, None>>,
     <<<<115, 47, 120, 46, 112, 121>>, None>>,
     <<<<115, 47, 97>>, None>>,
     <<<<115, 47, 120, 46, 112, 121>>, JStr(<<115>>)>>,
     <<<<115, 47, 97>>, JStr(<<115>>)>>}

InitReg ==
    /\ \E rs \in SeqsUpTo(Rules, MaxRules) : registry = Registry(TheProfiles, rs)
    /\ \E q \in Queries : file_path = q[1] /\ root = q[2]
    /\ PathSpec \in {None, Installed}
    /\ resolve_ret = NotCalled
    /\ pc = "call"
    /\ IdleSorted /\ IdleLines /\ IdleDoc /\ IdleMain

CallResolveProfile ==
    /\ pc = "call"
    /\ resolve_ret' = resolve_profile(registry, file_path, root, PathSpec)
    /\ pc' = "done"
    /\ UNCHANGED <<sortedVars, linesVars, docVars, mainVars, registry, file_path,
                   root, PathSpec>>

NextReg == CallResolveProfile

SpecReg == InitReg /\ [][NextReg]_vars

\* the path the globs are tried on, and the rules whose glob matches it
TheRel == Rel(file_path, root)
Matching ==
    {k \in DOMAIN registry.rules :
        _match_glob(registry.rules[k].match.glob, TheRel, PathSpec)}

\* the lowest-indexed matching rule
First == CHOOSE k \in Matching : \A j \in Matching : k <= j

\* what a rule gives when it is the one chosen
ResultOf(k) ==
    Returned(<<registry.rules[k].profile,
               registry.profiles[registry.rules[k].profile]>>)

\* the registry with rules k and j in each other's place
Swapped(k, j) ==
    Registry(registry.profiles,
             [i \in DOMAIN registry.rules |->
                 IF i = k THEN registry.rules[j]
                 ELSE IF i = j THEN registry.rules[k]
                 ELSE registry.rules[i]])

\* C12: when some rule matches and the lowest-indexed matching rule names an
\* alias in profiles, the result is that rule's alias and its definition
\* path, whatever later rules match; and putting a later matching rule with
\* a known alias in its place makes the result that later rule's, so it
\* changes whenever the two rules name different aliases.
C12_FirstMatchingRuleWins ==
    (pc = "done" /\ Matching # {}
        /\ registry.rules[First].profile \in DOMAIN registry.profiles) =>
        /\ resolve_ret = ResultOf(First)
        /\ \A j \in Matching :
              (j # First /\ registry.rules[j].profile \in DOMAIN registry.profiles) =>
                 LET r == resolve_profile(Swapped(First, j), file_path, root, PathSpec)
                 IN /\ r = ResultOf(j)
                    /\ registry.rules[j].profile # registry.rules[First].profile
                         => r # resolve_ret

\* rules *.py -> py, **/* -> fallback and the path s/x.py: both match, py wins
C12_Witness ==
    /\ pc = "done"
    /\ registry.rules = <<Rule(GlobPy, Py), Rule(GlobAll, Fallback)>>
    /\ file_path = <<115, 47, 120, 46, 112, 121>>
    /\ root = None
    /\ Matching = {1, 2}
    /\ resolve_ret = Returned(<<Py, PyJson>>)

\* C13: resolve_profile raises the no-match error iff no rule's glob matches
\* the path, and the unknown-alias error iff the lowest-indexed matching rule
\* names an alias that is not in profiles, whatever the later rules are; a
\* rule with an unknown alias that does not match, or that comes after the
\* first matching rule, makes no difference.
C13_ResolveErrors ==
    pc = "done" =>
        /\ resolve_ret = NoMatch <=> Matching = {}
        /\ resolve_ret = UnknownAlias <=>
              /\ Matching # {}
              /\ registry.rules[First].profile \notin DOMAIN registry.profiles
        /\ resolve_ret.t = "return" <=>
              /\ Matching # {}
              /\ registry.rules[First].profile \in DOMAIN registry.profiles

\* rules *.py -> ghost, **/* -> fallback and the path s/x.py: both match, the
\* first names an unknown alias, and the second is never tried
C13_Witness ==
    /\ pc = "done"
    /\ registry.rules = <<Rule(GlobPy, Ghost), Rule(GlobAll, Fallback)>>
    /\ file_path = <<115, 47, 120, 46, 112, 121>>
    /\ Matching = {1, 2}
    /\ resolve_ret = UnknownAlias

====
